---- MODULE Spec2Model ----
(***************************************************************************)
(* Model of gps.py: the SIM7080G AT-command driver (class SIM7080G) and    *)
(* its main() run against a modem whose replies arrive on the serial       *)
(* input buffer at times of the modem's choosing.                          *)
(*                                                                         *)
(* Text is a sequence of atoms.  An atom is an indivisible run of bytes    *)
(* (a lexeme such as "OK", "," or a number); LF and CR are the line feed   *)
(* and carriage return bytes.  A line is a maximal run of atoms between    *)
(* two LFs.  The serial link is assumed healthy: no SerialException.       *)
(***************************************************************************)
EXTENDS Integers, Sequences, FiniteSets, TLC

LF == "<LF>"
CR == "<CR>"

(***************************************************************************)
(* Bounds of the exploration.                                              *)
(***************************************************************************)
\* get_gps_position's loop is unbounded; the model explores this many polls.
MaxPolls == 2
\* Bursts of earlier replies the modem may still hold back when the next
\* command reaches it (the older ones have been put on the line by then).
MaxBacklog == 0

(***************************************************************************)
(* Sequence helpers (str methods of Python on atom sequences).             *)
(***************************************************************************)
Min(a, b) == IF a <= b THEN a ELSE b

\* s[i:] starts with p
StartsWithAt(s, i, p) ==
  /\ i + Len(p) - 1 <= Len(s)
  /\ SubSeq(s, i, i + Len(p) - 1) = p

\* str.find: the first index at which p occurs in s, 0 if none
Find(s, p) ==
  LET hits == {i \in 1..Len(s) : StartsWithAt(s, i, p)}
  IN  IF hits = {} THEN 0 ELSE CHOOSE i \in hits : \A j \in hits : i <= j

\* `p in s`
Contains(s, p) == Find(s, p) # 0

\* str.split(sep) for a non-empty separator
RECURSIVE Split(_, _)
Split(s, sep) ==
  LET i == Find(s, sep)
  IN  IF i = 0 THEN <<s>>
      ELSE <<SubSeq(s, 1, i - 1)>> \o Split(SubSeq(s, i + Len(sep), Len(s)), sep)

\* "".join(parts)
RECURSIVE Join(_)
Join(parts) == IF parts = <<>> THEN <<>> ELSE Head(parts) \o Join(Tail(parts))

\* the lines of a text under re.MULTILINE: ^ matches at the start and after
\* every LF, $ at the end and before every LF
Lines(text) == Split(text, <<LF>>)

(***************************************************************************)
(* The regular expressions of the program, named by their source text.     *)
(* None of them matches across a line feed, so each is a property of one   *)
(* line.                                                                   *)
(***************************************************************************)
ok_regex        == "^OK$"
error_regex     == "^ERROR.*"
any_regex       == ".*"
cgnsinf_regex   == ".*\\+CGNSINF:.*"
cgnsinf_filter  == "^\\+CGNSINF.*"
cnact_up_regex  == "^\\+CNACT: 0,1,\"(?!0\\.0\\.0\\.0\")\\d+\\.\\d+\\.\\d+\\.\\d+\"$"
cnact_down_regex == "^\\+CNACT: 0,0,\"0\\.0\\.0\\.0\"$"
shstate_regex   == "^\\+SHSTATE: 1$"
prompt_regex    == "^>"
shreq_regex     == "^\\+SHREQ: \\\"POST\\\",\\d{3},\\d{1,4}$"
shreq_filter    == "^\\+SHREQ.+"

ZeroIP    == "\"0.0.0.0\""
QuotedIPs == {ZeroIP, "\"10.0.0.2\""}
Digits3   == {"200", "500"}
Digits1to4 == {"12"}

\* whether the regex matches somewhere in the line
LineMatch(regex, line) ==
  CASE regex = ok_regex       -> line = <<"OK">>
    [] regex = error_regex    -> Len(line) >= 1 /\ line[1] = "ERROR"
    [] regex = any_regex      -> TRUE
    [] regex = cgnsinf_regex  -> Contains(line, <<"+CGNSINF", ":">>)
    [] regex = cgnsinf_filter -> Len(line) >= 1 /\ line[1] = "+CGNSINF"
    [] regex = cnact_up_regex ->
         /\ Len(line) = 2
         /\ line[1] = "+CNACT: 0,1,"
         /\ line[2] \in QuotedIPs \ {ZeroIP}
    [] regex = cnact_down_regex -> line = <<"+CNACT: 0,0,", ZeroIP>>
    [] regex = shstate_regex  -> line = <<"+SHSTATE: ", "1">>
    [] regex = prompt_regex   -> Len(line) >= 1 /\ line[1] = ">"
    [] regex = shreq_regex    ->
         /\ Len(line) = 5
         /\ line[1] = "+SHREQ: \"POST\""
         /\ line[2] = "," /\ line[3] \in Digits3
         /\ line[4] = "," /\ line[5] \in Digits1to4
    [] regex = shreq_filter   -> Len(line) >= 1 /\ line[1] = "+SHREQ: \"POST\""
    [] OTHER -> FALSE

\* the part of the line the regex matches when it matches: every regex that
\* is used as a filter is anchored at ^ and runs to the end of the line
\* (".*", "^X.*", "^...$"), so it is the whole line
MatchedText(regex, line) == line

\* re.search(regex, text, re.MULTILINE) is not None
re_search(regex, text) ==
  LET ls == Lines(text) IN \E i \in 1..Len(ls) : LineMatch(regex, ls[i])

\* "".join(re.findall(regex, text, re.MULTILINE))
RECURSIVE JoinMatches(_, _)
JoinMatches(regex, ls) ==
  IF ls = <<>> THEN <<>>
  ELSE (IF LineMatch(regex, Head(ls)) THEN MatchedText(regex, Head(ls)) ELSE <<>>)
       \o JoinMatches(regex, Tail(ls))

_filter_serial_response_with_regex(regex, serial_data) ==
  JoinMatches(regex, Lines(serial_data))

\* re.sub("^" + re.escape(line_to_remove) + "$", "", input_data, re.MULTILINE):
\* every occurrence that starts a line and ends one is deleted (its LF stays)
RECURSIVE CleanFrom(_, _, _)
CleanFrom(s, i, cmd) ==
  IF i > Len(s) THEN <<>>
  ELSE IF /\ Len(cmd) > 0
          /\ (i = 1 \/ s[i - 1] = LF)
          /\ StartsWithAt(s, i, cmd)
          /\ (i + Len(cmd) > Len(s) \/ s[i + Len(cmd)] = LF)
       THEN CleanFrom(s, i + Len(cmd), cmd)
       ELSE <<s[i]>> \o CleanFrom(s, i + 1, cmd)

_clean_serial_response(input_data, line_to_remove) ==
  CleanFrom(input_data, 1, line_to_remove)

\* response_data.replace("\r", "")
RemoveCR(data) == SelectSeq(data, LAMBDA a : a # CR)


(***************************************************************************)
(* State.                                                                  *)
(***************************************************************************)
VARIABLES
  pc,          \* the operation main() is in, "closed" after serial_port.close()
  op,          \* the position inside that operation (step / call site)
  ex,          \* the frame of _send_at_command: its arguments, loop and outcome
  inbuf,       \* serial_port's input buffer (in_waiting = Len(inbuf))
  modemOut,    \* bursts the modem has still to put on the line, oldest first
  log,         \* the commands written to serial_port since the current
               \* operation of main began, in order
  gps_json,    \* main's gps_json: what get_gps_position returned
  polls,       \* outcome of each finished pass of get_gps_position's loop
  post_report, \* what the except clause of post_json_payload's command loop
               \* logged, kept until deactivate_network begins
  uncaught,    \* the exception that left main(), "none" if none
  hist         \* observation of the executions: the writes and the reads of the
               \* current one, the commands written and not yet ended, and
               \* which bytes answer which command (see NoHistory)

vars == <<pc, op, ex, inbuf, modemOut, log, gps_json, polls, post_report,
          uncaught, hist>>

\* attempts = 5
attempts == 5

NoMatchMsg == <<"Response data does not match success or failure regex.">>

NoFix == <<>>
NoReport == [command |-> <<>>, status_msg |-> "", e |-> <<>>]

\* hist before any execution.  stale: the bytes at the front of inbuf that
\* answer earlier commands; staleOut: the bursts at the front of modemOut
\* that do; reply: the whole reply the modem decided on for the command in
\* execution; about the last read of the execution, fresh: how it would have
\* ended on the bytes answering its command alone, whole: whether the whole
\* reply had reached the input buffer by then; dirty: whether some read of
\* the execution held bytes answering earlier commands
NoHistory ==
  [writes |-> 0, trace |-> <<>>, text |-> <<>>, pending |-> 0, stale |-> 0,
   staleOut |-> 0, fresh |-> "Ambiguous", dirty |-> FALSE, whole |-> FALSE,
   reply |-> <<>>]

IdleFrame ==
  [st |-> "idle", command |-> <<>>, expected_reply_regex |-> "",
   failure_reply_regex |-> "", regex_return_filter |-> "", attempt |-> 0,
   result |-> <<>>]

\* entry of _send_at_command with its keyword arguments; the loop variable
\* starts at range(1, attempts + 1)'s first value
Frame(command, expected_reply_regex, failure_reply_regex, regex_return_filter) ==
  [st |-> "write", command |-> command,
   expected_reply_regex |-> expected_reply_regex,
   failure_reply_regex |-> failure_reply_regex,
   regex_return_filter |-> regex_return_filter, attempt |-> 1,
   result |-> <<>>]

\* _send_at_command(command=...) with the defaults of the signature
DefaultFrame(command) == Frame(command, ok_regex, error_regex, any_regex)

Finished == ex.st \in {"returned", "raised"}

(***************************************************************************)
(* The modem (environment).  On receiving a command it decides its reply,  *)
(* a sequence of bursts; each burst reaches the input buffer later, in     *)
(* order, at a time the modem chooses.                                     *)
(***************************************************************************)
\* ",".join(values): an empty value contributes no atom
RECURSIVE Csv(_)
Csv(values) ==
  IF values = <<>> THEN <<>>
  ELSE (IF Head(values) = "" THEN <<>> ELSE <<Head(values)>>)
       \o (IF Len(values) > 1 THEN <<",">> ELSE <<>>)
       \o Csv(Tail(values))

GoodFixValues ==
  <<"1", "1", "20240101120000.000", "37.774900", "-122.419400", "15.200",
    "0.00", "0.0", "1", "", "1.2", "0.8", "0.9", "", "7", "", "25", "30">>
NoLatFixValues == [GoodFixValues EXCEPT ![4] = ""]
NoLockValues   == [i \in 1..18 |-> IF i = 1 THEN "1" ELSE ""]
\* a garbled report: the latitude is not a number
BadLatFixValues == [GoodFixValues EXCEPT ![4] = "37.7x4900"]

FixReports == {GoodFixValues, NoLatFixValues, NoLockValues, BadLatFixValues}

FixLine(values) == <<"+CGNSINF", ":", " ">> \o Csv(values)

Echo(command) == command \o <<CR, CR, LF>>
OkLine  == <<"OK", CR, LF>>
ErrLine == <<"ERROR", CR, LF>>

\* the fix report leaves the modem in three bursts, the first of them the
\* tag +CGNSINF alone
FixReply(command, values) ==
  LET line == FixLine(values) \o <<CR, LF>>
  IN  <<Echo(command), SubSeq(line, 1, 1), SubSeq(line, 2, 8),
        SubSeq(line, 9, Len(line)), OkLine>>

InfoReply(command, line) == <<Echo(command), line \o <<CR, LF>>, OkLine>>

ModemReplies(command) ==
  LET generic == {<<>>, <<Echo(command), OkLine>>, <<Echo(command) \o ErrLine>>}
      name == IF command = <<>> THEN "" ELSE command[1]
  IN  CASE name = "AT+CGNSINF" ->
             {<<>>, <<Echo(command) \o ErrLine>>}
               \cup {FixReply(command, v) : v \in FixReports}
        [] name = "AT+CNACT?" ->
             {<<>>,
              InfoReply(command, <<"+CNACT: 0,1,", "\"10.0.0.2\"">>),
              InfoReply(command, <<"+CNACT: 0,0,", ZeroIP>>)}
        [] name = "AT+SHSTATE?" ->
             {<<>>,
              InfoReply(command, <<"+SHSTATE: ", "1">>),
              InfoReply(command, <<"+SHSTATE: ", "0">>)}
        [] name = "AT+SHBOD=" ->
             {<<>>, <<Echo(command), <<">", " ">> >>, <<Echo(command) \o ErrLine>>}
        [] name = "AT+SHREQ=\"/post-echo.php\",3" ->
             {<<>>, <<Echo(command) \o ErrLine>>,
              <<Echo(command), OkLine,
                <<"+SHREQ: \"POST\"", ",", "200", ",", "12", CR, LF>> >>}
        [] OTHER -> generic

\* the modem puts its next burst on the line
Deliver ==
  /\ modemOut # <<>>
  /\ inbuf' = inbuf \o Head(modemOut)
  /\ modemOut' = Tail(modemOut)
  /\ hist' = IF hist.staleOut > 0
             THEN [hist EXCEPT !.staleOut = @ - 1,
                               !.stale = @ + Len(Head(modemOut))]
             ELSE hist
  /\ UNCHANGED <<pc, op, ex, log, gps_json, polls, post_report, uncaught>>

(***************************************************************************)
(* _write_serial_data, _read_serial_data, _send_at_command                 *)
(***************************************************************************)
\* serial_port.write(data_str + "\r\n"): the command is on the line; the
\* modem decides its reply, after at most MaxBacklog older bursts
_write_serial_data ==
  /\ ex.st = "write"
  /\ log' = Append(log, ex.command)
  /\ LET keep  == Min(Len(modemOut), MaxBacklog)
         flush == Len(modemOut) - keep
     IN  /\ inbuf' = inbuf \o Join(SubSeq(modemOut, 1, flush))
         /\ \E reply \in ModemReplies(ex.command) :
              /\ modemOut' = SubSeq(modemOut, flush + 1, Len(modemOut)) \o reply
              /\ hist' = [hist EXCEPT !.writes = @ + 1, !.pending = @ + 1,
                                      !.stale = Len(inbuf'), !.staleOut = keep,
                                      !.reply = Join(reply)]
  /\ ex' = [ex EXCEPT !.st = "loop"]
  /\ UNCHANGED <<pc, op, gps_json, polls, post_report, uncaught>>

\* what _read_serial_data returns: "" when nothing waits, else every waiting
\* byte with the carriage returns removed
_read_serial_data == IF Len(inbuf) = 0 THEN <<>> ELSE RemoveCR(inbuf)

\* the loop of range(1, attempts + 1) has a next value
MoreAttemptsShort(attempt) == attempt + 1 < attempts
MoreAttempts(attempt) == attempt < attempts

\* the branch the loop body takes on the two match objects
ClassifyFailureFirst(success_match, failure_match) ==
  IF failure_match THEN "Failure"
  ELSE IF success_match THEN "Success" ELSE "Ambiguous"
ClassifyRetryFailure(success_match, failure_match) ==
  IF success_match THEN "Success" ELSE "Ambiguous"
Classify(success_match, failure_match) ==
  IF success_match THEN "Success"
  ELSE IF failure_match THEN "Failure" ELSE "Ambiguous"

\* time.sleep(2) and the next pass of the loop: the command is not written again
RetryResend(frame) == [frame EXCEPT !.attempt = @ + 1, !.st = "write"]
RetryForever(frame) == frame
Retry(frame) == [frame EXCEPT !.attempt = @ + 1]

\* one pass of the for loop on the text just read and cleaned
LoopBody(frame, response_data) ==
  LET success_match == re_search(frame.expected_reply_regex, response_data)
      failure_match == re_search(frame.failure_reply_regex, response_data)
      branch == Classify(success_match, failure_match)
  IN  CASE branch = "Success" ->
             [frame EXCEPT !.st = "returned",
                !.result = _filter_serial_response_with_regex(
                             frame.regex_return_filter, response_data)]
        [] branch = "Failure" ->
             [frame EXCEPT !.st = "raised",
                !.result = _filter_serial_response_with_regex(
                             frame.failure_reply_regex, response_data)]
        [] OTHER ->
             IF MoreAttempts(frame.attempt) THEN Retry(frame)
             ELSE [frame EXCEPT !.st = "raised", !.result = NoMatchMsg]

\* how a pass of the loop ended, read off the frame it left
Outcome(frame) ==
  IF frame.st = "returned" THEN "Success"
  ELSE IF frame.st = "raised" /\ frame.result # NoMatchMsg THEN "Failure"
  ELSE "Ambiguous"

\* observation: how the pass would have ended on the bytes of the reply to
\* the command of this execution alone, those of earlier replies left out
FreshOutcome ==
  LET fresh == SubSeq(inbuf, hist.stale + 1, Len(inbuf))
      text  == _clean_serial_response(RemoveCR(fresh), ex.command)
  IN  Classify(re_search(ex.expected_reply_regex, text),
               re_search(ex.failure_reply_regex, text))

_send_at_command ==
  /\ ex.st = "loop"
  /\ LET response_data == _clean_serial_response(_read_serial_data, ex.command)
         next == LoopBody(ex, response_data)
     IN  /\ ex' = next
         /\ hist' = [hist EXCEPT
              !.trace = Append(@,
                 [s |-> re_search(ex.expected_reply_regex, response_data),
                  f |-> re_search(ex.failure_reply_regex, response_data),
                  o |-> Outcome(next)]),
              !.text = response_data,
              !.pending = IF next.st \in {"returned", "raised"} THEN @ - 1 ELSE @,
              !.fresh = FreshOutcome,
              !.dirty = @ \/ hist.stale > 0,
              !.whole = (modemOut = <<>>),
              !.stale = 0,
              !.staleOut = IF next.st \in {"returned", "raised"} THEN 0 ELSE @]
  /\ inbuf' = <<>>
  /\ UNCHANGED <<pc, op, modemOut, log, gps_json, polls, post_report, uncaught>>

\* a caller enters _send_at_command
Call(frame) ==
  /\ ex' = frame
  /\ hist' = [hist EXCEPT !.writes = 0, !.trace = <<>>, !.text = <<>>,
                          !.fresh = "Ambiguous", !.dirty = FALSE,
                          !.whole = FALSE, !.reply = <<>>]
  /\ UNCHANGED log

\* the first call of an operation of main: log starts over with it
Enter(frame) ==
  /\ ex' = frame
  /\ hist' = [hist EXCEPT !.writes = 0, !.trace = <<>>, !.text = <<>>,
                          !.fresh = "Ambiguous", !.dirty = FALSE,
                          !.whole = FALSE, !.reply = <<>>]
  /\ log' = <<>>


(***************************************************************************)
(* _parse_gps_info                                                         *)
(***************************************************************************)
gnss_key_names_and_expected_types ==
  << <<"gnss_run_state", "int">>, <<"gps_fix_status", "int">>,
     <<"utc_date_time", "str">>, <<"latitude", "float">>,
     <<"longitude", "float">>, <<"msl_altitude", "float">>,
     <<"speed_over_ground", "float">>, <<"course_over_ground", "float">>,
     <<"fix_mode", "int">>, <<"reserved1", "str">>, <<"hdop", "float">>,
     <<"pdop", "float">>, <<"vdop", "float">>, <<"reserved2", "str">>,
     <<"gps_satellites_in_view", "int">>, <<"reserved3", "str">>,
     <<"hpa", "float">>, <<"vpa", "float">> >>

\* the atoms int() accepts, and the further ones float() accepts
IntAtoms   == {"0", "1", "7", "12", "25", "30", "200", "500"}
FloatAtoms == {"37.774900", "-122.419400", "15.200", "0.00", "0.0", "1.2",
               "0.8", "0.9"}

\* repr(float(atom)), as json.dumps writes it
FloatRepr(atom) ==
  CASE atom = "37.774900"   -> "37.7749"
    [] atom = "-122.419400" -> "-122.4194"
    [] atom = "15.200"      -> "15.2"
    [] atom = "0.00"        -> "0.0"
    [] atom \in IntAtoms    -> atom \o ".0"
    [] OTHER                -> atom

\* expected_item_type(item_value) does not raise ValueError
Castable(type, item_value) ==
  CASE type = "str"   -> TRUE
    [] type = "int"   -> Len(item_value) = 1 /\ item_value[1] \in IntAtoms
    [] type = "float" -> Len(item_value) = 1
                           /\ item_value[1] \in IntAtoms \cup FloatAtoms
    [] OTHER -> FALSE

\* json.dumps of expected_item_type(item_value); an empty value is left the
\* empty string it is
DumpValueDefaulting(type, item_value) ==
  IF item_value = <<>> THEN (IF type = "str" THEN <<"\"", "\"">> ELSE <<"0">>)
  ELSE CASE type = "int"   -> item_value
         [] type = "float" -> <<FloatRepr(item_value[1])>>
         [] OTHER          -> <<"\"">> \o item_value \o <<"\"">>
DumpValue(type, item_value) ==
  IF item_value = <<>> THEN <<"\"", "\"">>
  ELSE CASE type = "int"   -> item_value
         [] type = "float" -> <<FloatRepr(item_value[1])>>
         [] OTHER          -> <<"\"">> \o item_value \o <<"\"">>

\* gps_data.split(": ")
SplitOnColonSpace(gps_data) == Split(gps_data, <<":", " ">>)

\* gps_data.split(": ")[1].split(',')
values_from_modem(gps_data) == Split(SplitOnColonSpace(gps_data)[2], <<",">>)

\* dict(zip(keys, values_from_modem)): as many entries as the shorter has
ZipLen(values) == Min(Len(gnss_key_names_and_expected_types), Len(values))

RECURSIVE DumpItems(_, _)
DumpItems(values, i) ==
  IF i > ZipLen(values) THEN <<>>
  ELSE <<"\"" \o gnss_key_names_and_expected_types[i][1] \o "\"", ": ">>
       \o DumpValue(gnss_key_names_and_expected_types[i][2], values[i])
       \o (IF i < ZipLen(values) THEN <<", ">> ELSE <<>>)
       \o DumpItems(values, i + 1)

\* json.dumps(gps_json)
json_dumps(values) == <<"{">> \o DumpItems(values, 1) \o <<"}">>

\* the outcome of _parse_gps_info: the exception it raises, or "" and the
\* JSON text it returns
_parse_gps_info(gps_data) ==
  IF Len(SplitOnColonSpace(gps_data)) < 2
  THEN [error |-> "IndexError", json |-> <<>>]
  ELSE LET values == values_from_modem(gps_data)
       IN  IF \E i \in 1..ZipLen(values) :
                 /\ values[i] # <<>>
                 /\ ~Castable(gnss_key_names_and_expected_types[i][2], values[i])
           THEN [error |-> "ValueError", json |-> <<>>]
           ELSE [error |-> "", json |-> json_dumps(values)]

\* the JSON value text of a key of a dumped record, <<>> if the key is absent
JsonGet(json, key) ==
  LET k == Find(json, <<"\"" \o key \o "\"", ": ">>)
  IN  IF k = 0 THEN <<>>
      ELSE LET rest == SubSeq(json, k + 2, Len(json))
               ends == {i \in 1..Len(rest) : rest[i] \in {", ", "}"}}
               e    == CHOOSE i \in ends : \A j \in ends : i <= j
           IN  SubSeq(rest, 1, e - 1)

JsonHas(json, key) == Contains(json, <<"\"" \o key \o "\"", ": ">>)

(***************************************************************************)
(* gps_power_on, get_gps_position, gps_power_off                           *)
(***************************************************************************)
\* except SIM7080GException as e: the handler of the try around the command of
\* gps_power_on, gps_power_off, activate_network and deactivate_network
BestEffortCatchesNothing(exception) == FALSE
BestEffortCatches(exception) == exception = "SIM7080GException"

\* an exception no handler caught leaves main through its finally clause
Propagate(exception) ==
  /\ pc' = "closed"
  /\ uncaught' = exception

gps_power_on ==
  /\ pc = "gps_power_on"
  /\ \/ /\ ex.st = "idle"
        /\ Enter(DefaultFrame(<<"AT+CGNSPWR=1">>))
        /\ UNCHANGED <<pc, uncaught>>
     \/ /\ Finished
        /\ IF ex.st = "raised" /\ ~BestEffortCatches("SIM7080GException")
           THEN Propagate("SIM7080GException")
           ELSE pc' = "get_gps_position" /\ UNCHANGED uncaught
        /\ ex' = IdleFrame
        /\ UNCHANGED <<hist, log>>
  /\ UNCHANGED <<op, inbuf, modemOut, gps_json, polls, post_report>>

\* ",,,," in response
WaitingForLockEmptyOnly(response) == response = <<>>
WaitingForLock(response) == Contains(response, <<",", ",", ",", ",">>)

\* except SIM7080GException: the handler of get_gps_position's try
GpsCatchesNothing(exception) == FALSE
GpsCatchesEverything(exception) == TRUE
GpsCatches(exception) == exception = "SIM7080GException"

get_gps_position ==
  /\ pc = "get_gps_position"
  /\ \/ /\ ex.st = "idle"
        /\ Len(polls) < MaxPolls
        /\ IF polls = <<>>
           THEN Enter(Frame(<<"AT+CGNSINF">>, cgnsinf_regex, error_regex, cgnsinf_filter))
           ELSE Call(Frame(<<"AT+CGNSINF">>, cgnsinf_regex, error_regex, cgnsinf_filter))
        /\ UNCHANGED <<pc, gps_json, polls, uncaught>>
     \/ /\ ex.st = "returned"
        /\ WaitingForLock(ex.result)
        /\ polls' = Append(polls, "nolock")
        /\ ex' = IdleFrame
        /\ UNCHANGED <<pc, gps_json, uncaught, hist, log>>
     \/ /\ ex.st = "returned"
        /\ ~WaitingForLock(ex.result)
        /\ LET parsed == _parse_gps_info(ex.result)
           IN  IF parsed.error = ""
               THEN /\ gps_json' = parsed.json
                    /\ polls' = <<>>
                    /\ pc' = "gps_power_off"
                    /\ UNCHANGED uncaught
               ELSE IF GpsCatches(parsed.error)
               THEN /\ polls' = Append(polls, "error")
                    /\ UNCHANGED <<pc, gps_json, uncaught>>
               ELSE /\ uncaught' = parsed.error
                    /\ polls' = <<>>
                    /\ pc' = "closed"
                    /\ UNCHANGED gps_json
        /\ ex' = IdleFrame
        /\ UNCHANGED <<hist, log>>
     \/ /\ ex.st = "raised"
        /\ IF GpsCatches("SIM7080GException")
           THEN /\ polls' = Append(polls, "error")
                /\ UNCHANGED <<pc, uncaught>>
           ELSE /\ polls' = <<>>
                /\ pc' = "closed"
                /\ uncaught' = "SIM7080GException"
        /\ ex' = IdleFrame
        /\ UNCHANGED <<gps_json, hist, log>>
  /\ UNCHANGED <<op, inbuf, modemOut, post_report>>

gps_power_off ==
  /\ pc = "gps_power_off"
  /\ \/ /\ ex.st = "idle"
        /\ Enter(DefaultFrame(<<"AT+CGNSPWR=0">>))
        /\ UNCHANGED <<pc, op, uncaught>>
     \/ /\ Finished
        /\ IF ex.st = "raised" /\ ~BestEffortCatches("SIM7080GException")
           THEN Propagate("SIM7080GException")
           ELSE pc' = "activate_network" /\ UNCHANGED uncaught
        /\ op' = 0
        /\ ex' = IdleFrame
        /\ UNCHANGED <<hist, log>>
  /\ UNCHANGED <<inbuf, modemOut, gps_json, polls, post_report>>

(***************************************************************************)
(* _is_network_up, activate_network, deactivate_network                    *)
(* op = 0: before _is_network_up; 1: in _is_network_up; 2: in the          *)
(* (de)activation command                                                  *)
(***************************************************************************)
_is_network_up_frame ==
  Frame(<<"AT+CNACT?">>, cnact_up_regex, cnact_down_regex, any_regex)

\* what _is_network_up returns when its query ended in state st: True after
\* the call returned, False from the except clause
_is_network_up_true(st) == TRUE
_is_network_up(st) == st = "returned"

\* activate_network's `if self._is_network_up(): return True / else:`
SendsActivation(up) == ~up

\* deactivate_network's `if not self._is_network_up(): ... / else:`
SendsDeactivationAlways(up) == TRUE
SendsDeactivation(up) == up

activate_network ==
  /\ pc = "activate_network"
  /\ \/ /\ op = 0 /\ ex.st = "idle"
        /\ Enter(_is_network_up_frame)
        /\ op' = 1
        /\ UNCHANGED <<pc, uncaught>>
     \/ /\ op = 1 /\ Finished
        /\ IF SendsActivation(_is_network_up(ex.st))
           THEN /\ Call(Frame(<<"AT+CNACT=0,1">>, ok_regex, error_regex, any_regex))
                /\ op' = 2
                /\ UNCHANGED pc
           ELSE /\ pc' = "post_json_payload" /\ op' = 0
                /\ ex' = IdleFrame
                /\ UNCHANGED <<hist, log>>
        /\ UNCHANGED uncaught
     \/ /\ op = 2 /\ ex.st = "returned"
        /\ pc' = "post_json_payload" /\ op' = 0
        /\ ex' = IdleFrame
        /\ UNCHANGED <<hist, log, uncaught>>
     \/ /\ op = 2 /\ ex.st = "raised"
        /\ IF BestEffortCatches("SIM7080GException")
           THEN pc' = "closed" /\ UNCHANGED uncaught
           ELSE Propagate("SIM7080GException")
        /\ op' = 0
        /\ ex' = IdleFrame
        /\ UNCHANGED <<hist, log>>
  /\ UNCHANGED <<inbuf, modemOut, gps_json, polls, post_report>>

deactivate_network ==
  /\ pc = "deactivate_network"
  /\ \/ /\ op = 0 /\ ex.st = "idle"
        /\ Enter(_is_network_up_frame)
        /\ op' = 1
        /\ post_report' = NoReport
        /\ UNCHANGED <<pc, uncaught>>
     \/ /\ op = 1 /\ Finished
        /\ IF SendsDeactivation(_is_network_up(ex.st))
           THEN /\ Call(Frame(<<"AT+CNACT=0,0">>, ok_regex, error_regex, any_regex))
                /\ op' = 2
                /\ UNCHANGED pc
           ELSE /\ pc' = "closed" /\ op' = 0
                /\ ex' = IdleFrame
                /\ UNCHANGED <<hist, log>>
        /\ UNCHANGED <<post_report, uncaught>>
     \/ /\ op = 2 /\ Finished
        /\ IF ex.st = "raised" /\ ~BestEffortCatches("SIM7080GException")
           THEN Propagate("SIM7080GException")
           ELSE pc' = "closed" /\ UNCHANGED uncaught
        /\ op' = 0
        /\ ex' = IdleFrame
        /\ UNCHANGED <<hist, log, post_report>>
  /\ UNCHANGED <<inbuf, modemOut, gps_json, polls>>


(***************************************************************************)
(* post_json_payload                                                       *)
(* op = 0: entry; 1..13: in commands[op]; 14: payload; 15: AT+SHREQ;       *)
(* 16: AT+SHREAD; 17: the closing AT+SHDISC                                *)
(***************************************************************************)
url == "https://paglusch.com"

\* len(json_string), in atoms
json_length(json_string) == ToString(Len(json_string))

commands(json_string) ==
  << [command |-> <<"AT+SHDISC">>, expected_reply_regex |-> any_regex,
      status_msg |-> "Cleaning up any old (failed) connections. ERRORs ignored"],
     [command |-> <<"AT+CSSLCFG=\"sslversion\",1,3">>,
      expected_reply_regex |-> ok_regex, status_msg |-> "Setting TLS version"],
     [command |-> <<"AT+CSSLCFG=\"ignorertctime\",1,1">>,
      expected_reply_regex |-> ok_regex,
      status_msg |-> "Disabling TLS cert expiration checking"],
     [command |-> <<"AT+CSSLCFG=\"sni\",1,\"paglusch.com\"">>,
      expected_reply_regex |-> ok_regex, status_msg |-> "Enabling SNI"],
     [command |-> <<"AT+SHSSL=1,\"\"">>,
      expected_reply_regex |-> ok_regex, status_msg |-> "Relaxing TLS verification"],
     [command |-> <<"AT+SHCONF=\"URL\",\"", url, "\"">>,
      expected_reply_regex |-> ok_regex, status_msg |-> "Setting URL to " \o url],
     [command |-> <<"AT+SHCONF=\"BODYLEN\",1024">>,
      expected_reply_regex |-> ok_regex,
      status_msg |-> "Setting max body size to 1024"],
     [command |-> <<"AT+SHCONF=\"HEADERLEN\",350">>,
      expected_reply_regex |-> ok_regex,
      status_msg |-> "Setting max header size to 350"],
     [command |-> <<"AT+SHCONN">>,
      expected_reply_regex |-> ok_regex, status_msg |-> "Creating HTTPS connection"],
     [command |-> <<"AT+SHSTATE?">>,
      expected_reply_regex |-> shstate_regex,
      status_msg |-> "Verifying connection is alive"],
     [command |-> <<"AT+SHCHEAD">>,
      expected_reply_regex |-> ok_regex, status_msg |-> "Clearing existing headers"],
     [command |-> <<"AT+SHAHEAD=\"Content-Type\",\"application/json\"">>,
      expected_reply_regex |-> ok_regex,
      status_msg |-> "Adding Content-Type header"],
     [command |-> <<"AT+SHBOD=", json_length(json_string), ",10000">>,
      expected_reply_regex |-> prompt_regex,
      status_msg |-> "Preparing modem for JSON payload input"] >>

NCommands == Len(commands(<<>>))

CommandFrame(step) ==
  Frame(step.command, step.expected_reply_regex, error_regex, any_regex)

\* post_result.split(',')[-1]
post_resp_size(post_result) ==
  LET parts == Split(post_result, <<",">>) IN parts[Len(parts)]

\* leaving post_json_payload: main goes on to deactivate_network
PostReturn ==
  /\ pc' = "deactivate_network"
  /\ op' = 0
  /\ ex' = IdleFrame
  /\ UNCHANGED <<hist, log>>

\* where the for loop over commands goes after commands[op] ended in state
\* st: 0 is the return of the except clause, NCommands + 1 the end of the loop
AfterCommandNoReturn(step, st) == step + 1
AfterCommand(step, st) == IF st = "raised" THEN 0 ELSE step + 1

post_json_payload ==
  /\ pc = "post_json_payload"
  /\ \/ /\ op = 0 /\ ex.st = "idle"
        /\ Enter(CommandFrame(commands(gps_json)[1]))
        /\ op' = 1
        /\ UNCHANGED <<pc, post_report>>
     \/ /\ op \in 1..NCommands /\ Finished
        /\ post_report' =
             IF ex.st = "raised"
             THEN [command |-> ex.command,
                   status_msg |-> commands(gps_json)[op].status_msg,
                   e |-> ex.result]
             ELSE post_report
        /\ LET next == AfterCommand(op, ex.st)
           IN  IF next = 0 THEN PostReturn
               ELSE /\ IF next <= NCommands
                       THEN Call(CommandFrame(commands(gps_json)[next]))
                       ELSE Call(Frame(gps_json \o <<LF>>, ok_regex, error_regex,
                                       shreq_filter))
                    /\ op' = next
                    /\ UNCHANGED pc
     \/ /\ op = NCommands + 1 /\ ex.st = "returned"
        /\ Call(Frame(<<"AT+SHREQ=\"/post-echo.php\",3">>, shreq_regex,
                      error_regex, shreq_regex))
        /\ op' = NCommands + 2
        /\ UNCHANGED <<pc, post_report>>
     \/ /\ op = NCommands + 2 /\ ex.st = "returned"
        /\ Call(DefaultFrame(<<"AT+SHREAD=0,">> \o post_resp_size(ex.result)))
        /\ op' = NCommands + 3
        /\ UNCHANGED <<pc, post_report>>
     \/ /\ op = NCommands + 3 /\ ex.st = "returned"
        /\ Call(DefaultFrame(<<"AT+SHDISC">>))
        /\ op' = NCommands + 4
        /\ UNCHANGED <<pc, post_report>>
     \/ /\ op = NCommands + 4 /\ ex.st = "returned"
        /\ PostReturn
        /\ UNCHANGED post_report
     \/ /\ op \in (NCommands + 1)..(NCommands + 4) /\ ex.st = "raised"
        /\ PostReturn
        /\ UNCHANGED post_report
  /\ UNCHANGED <<inbuf, modemOut, gps_json, polls, uncaught>>

(***************************************************************************)
(* main                                                                    *)
(***************************************************************************)
Init ==
  /\ pc = "gps_power_on"
  /\ op = 0
  /\ ex = IdleFrame
  /\ inbuf = <<>>
  /\ modemOut = <<>>
  /\ log = <<>>
  /\ gps_json = NoFix
  /\ polls = <<>>
  /\ post_report = NoReport
  /\ uncaught = "none"
  /\ hist = NoHistory

Next ==
  \/ gps_power_on
  \/ get_gps_position
  \/ gps_power_off
  \/ activate_network
  \/ post_json_payload
  \/ deactivate_network
  \/ _write_serial_data
  \/ _send_at_command
  \/ Deliver

Spec == Init /\ [][Next]_vars


(***************************************************************************)
(* Properties.                                                             *)
(***************************************************************************)
Last(seq) == seq[Len(seq)]

\* an execution of _send_at_command is under way or has just ended
InExecution == ex.st \in {"loop", "returned", "raised"}

\* the read matched neither the success nor the failure pattern
Unmatched(read) == ~read.s /\ ~read.f

\* post_json_payload has just returned to main: log still holds its commands
JustReturnedFromPost ==
  pc = "deactivate_network" /\ op = 0 /\ ex.st = "idle"

\* C1: an execution none of whose reads matches the success or the failure
\* pattern ends in the no-matching-response error after exactly `attempts`
\* (5) reads, an empty read counting as one; it never reads more often.
C1_ExhaustionAfterExactlyAttempts ==
  /\ Len(hist.trace) <= attempts
  /\ (ex.st = "loop" => Len(hist.trace) < attempts)
  /\ (/\ Finished
      /\ \A i \in 1..Len(hist.trace) : Unmatched(hist.trace[i]))
       => /\ ex.st = "raised"
          /\ ex.result = NoMatchMsg
          /\ Len(hist.trace) = attempts
  /\ (ex.st = "raised" /\ ex.result = NoMatchMsg)
       => Len(hist.trace) = attempts

\* an execution ended by exhaustion whose last read found no bytes waiting
C1_Witness ==
  /\ ex.st = "raised"
  /\ ex.result = NoMatchMsg
  /\ Len(hist.trace) = attempts
  /\ hist.text = <<>>
  /\ \A i \in 1..Len(hist.trace) : Unmatched(hist.trace[i])

\* C2: within one execution no read follows a read that matched the success
\* or the failure pattern; a read that matches the success pattern ends the
\* execution with a returned result, one that matches only the failure
\* pattern ends it with a raised protocol failure, and the loop goes on only
\* after reads that matched neither.
C2_FirstMatchEndsExecution ==
  LET t == hist.trace
      n == Len(t)
  IN  /\ \A i \in 1..(n - 1) : Unmatched(t[i])
      /\ (ex.st \in {"write", "loop"} /\ n > 0) => Unmatched(t[n])
      /\ (InExecution /\ n > 0 /\ t[n].s) => ex.st = "returned"
      /\ (InExecution /\ n > 0 /\ ~t[n].s /\ t[n].f)
           => (ex.st = "raised" /\ ex.result # NoMatchMsg)

\* a protocol failure raised on a read that followed an unmatched read
C2_Witness ==
  /\ ex.st = "raised"
  /\ ex.result # NoMatchMsg
  /\ Len(hist.trace) >= 2
  /\ Last(hist.trace).f

\* C3: every read ends in exactly one of Success, Failure and Ambiguous:
\* Success iff the success pattern matches the cleaned text, Failure iff it
\* does not and the failure pattern matches, Ambiguous iff neither matches;
\* so a text matching both is a Success.
C3_ClassificationPartition ==
  \A i \in 1..Len(hist.trace) :
    LET r == hist.trace[i]
    IN  /\ r.o \in {"Success", "Failure", "Ambiguous"}
        /\ (r.o = "Success") <=> r.s
        /\ (r.o = "Failure") <=> (~r.s /\ r.f)
        /\ (r.o = "Ambiguous") <=> (~r.s /\ ~r.f)

\* a read whose text matches both patterns, ended as a Success
C3_Witness ==
  /\ hist.trace # <<>>
  /\ Last(hist.trace).s
  /\ Last(hist.trace).f
  /\ Last(hist.trace).o = "Success"
  /\ ex.st = "returned"

\* C4: at most one command is written and not yet ended; a command is about
\* to be written only when none is, and an execution has written its command
\* exactly once from its first read on.
C4_OneCommandInFlight ==
  /\ hist.pending \in {0, 1}
  /\ ex.st = "write" => (hist.pending = 0 /\ hist.writes = 0)
  /\ ex.st = "loop" => (hist.pending = 1 /\ hist.writes = 1)
  /\ Finished => (hist.pending = 0 /\ hist.writes = 1)

\* a later command of an operation in flight, after a retry of its read
C4_Witness ==
  /\ ex.st = "loop"
  /\ ex.attempt >= 2
  /\ Len(log) >= 2
  /\ hist.pending = 1

\* the order of the configuration steps, by the command each begins with
PostOrder ==
  <<"AT+SHDISC", "AT+CSSLCFG=\"sslversion\",1,3",
    "AT+CSSLCFG=\"ignorertctime\",1,1", "AT+CSSLCFG=\"sni\",1,\"paglusch.com\"",
    "AT+SHSSL=1,\"\"", "AT+SHCONF=\"URL\",\"", "AT+SHCONF=\"BODYLEN\",1024",
    "AT+SHCONF=\"HEADERLEN\",350", "AT+SHCONN", "AT+SHSTATE?", "AT+SHCHEAD",
    "AT+SHAHEAD=\"Content-Type\",\"application/json\"", "AT+SHBOD=">>

\* the commands written so far are the first configuration steps, in order
InPostOrder ==
  \A i \in 1..Min(Len(log), Len(PostOrder)) : log[i][1] = PostOrder[i]

\* the failure text of the execution that just ended: the lines of the last
\* read that match the failure pattern, or the no-match message
LastFailureText ==
  IF Last(hist.trace).o = "Failure"
  THEN _filter_serial_response_with_regex(error_regex, hist.text)
  ELSE NoMatchMsg

\* C5: post_json_payload writes its configuration steps in the listed
\* order, each once; when a configuration step ends in a protocol failure or
\* in exhaustion the operation returns with that step the last command it
\* wrote, and the error it logs names that step's command and description
\* and carries the failure text.
C5_PostAbortsAtFirstFailure ==
  /\ (pc = "post_json_payload" /\ op >= 1) => InPostOrder
  /\ (pc = "post_json_payload" /\ op \in 1..NCommands /\ InExecution)
       => Len(log) = op
  /\ (pc = "post_json_payload" /\ post_report # NoReport) => ~InExecution
  /\ (JustReturnedFromPost /\ post_report # NoReport)
       => /\ InPostOrder
          /\ Len(log) \in 1..NCommands
          /\ post_report.command = Last(log)
          /\ post_report.status_msg = commands(gps_json)[Len(log)].status_msg
          /\ hist.trace # <<>>
          /\ Last(hist.trace).o # "Success"
          /\ post_report.e = LastFailureText

\* the 9th step (connect) was answered ERROR and the operation has returned
C5_Witness ==
  /\ JustReturnedFromPost
  /\ post_report.command = <<"AT+SHCONN">>
  /\ post_report.status_msg = "Creating HTTPS connection"
  /\ post_report.e = <<"ERROR">>
  /\ Len(log) = 9


\* C6: whenever post_json_payload returns, the last command it wrote is a
\* closing AT+SHDISC, sent after every other command of the operation.
C6_DisconnectBeforeEveryReturn ==
  JustReturnedFromPost
    => /\ Len(log) >= 2
       /\ Last(log) = <<"AT+SHDISC">>

\* C7: a read whose cleaned text is empty (nothing waiting, or nothing but
\* the echo) is Ambiguous whatever the command and its success pattern.
C7_EmptyReadIsAmbiguous ==
  (hist.trace # <<>> /\ hist.text = <<>>)
    => Last(hist.trace).o = "Ambiguous"

\* a +CGNSINF line of 18 fields of which all after the first are empty
AllEmptyFields(line) ==
  /\ Len(line) >= 3
  /\ SubSeq(line, 1, 3) = <<"+CGNSINF", ":", " ">>
  /\ LET values == Split(SubSeq(line, 4, Len(line)), <<",">>)
     IN  /\ Len(values) = Len(gnss_key_names_and_expected_types)
         /\ \A i \in 2..Len(values) : values[i] = <<>>

\* the text of the last read holds the no-lock report
NoLockRead ==
  LET ls == Lines(hist.text) IN \E i \in 1..Len(ls) : AllEmptyFields(ls[i])

\* the next thing get_gps_position does at the top of its loop is to issue
\* the fix query
QueriesAgain ==
  (pc = "get_gps_position" /\ ex.st = "idle" /\ ex' # ex)
    => /\ ex'.st = "write"
       /\ ex'.command = <<"AT+CGNSINF">>
       /\ pc' = pc

\* C8: when the fix query returns a read that holds the all-empty-fields
\* report, get_gps_position neither decodes nor returns anything: it stays
\* in its loop, counts a no-lock pass (the 10 s wait) and queries again.
C8_NoLockIsPolledAgain ==
  [][/\ (pc = "get_gps_position" /\ ex.st = "returned" /\ NoLockRead)
          => /\ pc' = "get_gps_position"
             /\ gps_json' = gps_json
             /\ uncaught' = uncaught
             /\ ex' # ex => (ex' = IdleFrame /\ polls' = Append(polls, "nolock"))
     /\ QueriesAgain]_vars

\* get_gps_position has just taken the no-lock path on such a read
C8_Witness ==
  /\ pc = "get_gps_position"
  /\ ex.st = "idle"
  /\ polls # <<>>
  /\ Last(polls) = "nolock"
  /\ NoLockRead
  /\ gps_json = NoFix

CoreFields == {"latitude", "longitude", "msl_altitude", "speed_over_ground"}

\* C9: a fix that get_gps_position returned from a full report has its
\* latitude, longitude, altitude and speed present and not empty.
C9_ReturnedFixHasCoreFields ==
  (gps_json # NoFix /\ JsonHas(gps_json, "vpa"))
    => \A k \in CoreFields :
         /\ JsonHas(gps_json, k)
         /\ JsonGet(gps_json, k) # <<"\"", "\"">>

\* C10: when the fix query raises (protocol failure or exhaustion),
\* get_gps_position stays in its loop with nothing propagated, counts an
\* error pass (the 10 s wait) and queries again; it is left for
\* gps_power_off only from a returned query, with the decoded fix.
C10_GpsErrorsAreRetried ==
  [][/\ (pc = "get_gps_position" /\ ex.st = "raised")
          => /\ pc' = "get_gps_position"
             /\ gps_json' = gps_json
             /\ uncaught' = "none"
             /\ ex' # ex => (ex' = IdleFrame /\ polls' = Append(polls, "error"))
     /\ QueriesAgain
     /\ (pc = "get_gps_position" /\ pc' # pc /\ uncaught' = "none")
          => /\ ex.st = "returned"
             /\ pc' = "gps_power_off"
             /\ gps_json' # NoFix
             /\ gps_json' = _parse_gps_info(ex.result).json]_vars

\* the fix query is under way again after a pass that ended in an error
C10_Witness ==
  /\ pc = "get_gps_position"
  /\ polls # <<>>
  /\ Last(polls) = "error"
  /\ ex.st = "loop"
  /\ ex.command = <<"AT+CGNSINF">>

\* the values of a returned fix line: what follows its first ": ", split on ","
FixLineValues(response) ==
  LET k == Find(response, <<":", " ">>)
  IN  IF k = 0 THEN <<>>
      ELSE Split(SubSeq(response, k + 2, Len(response)), <<",">>)

\* the texts that are decimal numbers among the values the modem sends
Numerals ==
  {"0", "1", "7", "12", "25", "30", "37.774900", "-122.419400", "15.200",
   "0.00", "0.0", "1.2", "0.8", "0.9"}

\* the positions of the schema that hold numbers (integer or real)
NumericPositions == {1, 2, 4, 5, 6, 7, 8, 9, 11, 12, 13, 15, 17, 18}

\* a returned line without the no-lock mark one of whose numeric fields holds
\* a non-empty text that is no number
GarbledFix(response) ==
  /\ ~Contains(response, <<",", ",", ",", ",">>)
  /\ LET values == FixLineValues(response)
     IN  \E i \in NumericPositions :
           /\ i <= Len(values)
           /\ values[i] # <<>>
           /\ ~(Len(values[i]) = 1 /\ values[i][1] \in Numerals)

\* C11: when the fix query returns a line without the no-lock mark in which a
\* non-empty value cannot be cast to its field's type, get_gps_position ends
\* with the parse error propagated to main (which closes the port): nothing
\* is returned, no pass is counted, and no command is written afterwards.
C11_CastFailureEndsAcquisition ==
  [][/\ (pc = "get_gps_position" /\ ex.st = "returned" /\ GarbledFix(ex.result)
          /\ ex' # ex)
          => /\ pc' = "closed"
             /\ uncaught' = "ValueError"
             /\ gps_json' = NoFix
             /\ ex' = IdleFrame
             /\ log' = log
     /\ (uncaught # "none")
          => /\ pc = "closed"
             /\ pc' = "closed" /\ ex' = ex /\ log' = log
             /\ uncaught' = uncaught]_vars

\* main has ended on the parse error of a report whose latitude is garbled,
\* after a single fix query
C11_Witness ==
  /\ pc = "closed"
  /\ uncaught = "ValueError"
  /\ log = << <<"AT+CGNSINF">> >>
  /\ LET ls == Lines(hist.text)
     IN  \E i \in 1..Len(ls) :
           ls[i] = <<"+CGNSINF", ":", " ">> \o Csv(BadLatFixValues)

\* the operations whose failures are warnings
BestEffort ==
  {"gps_power_on", "gps_power_off", "activate_network", "deactivate_network"}

\* what main does next when the operation it is in returns after a failure
NextOfMain ==
  CASE pc = "gps_power_on"  -> "get_gps_position"
    [] pc = "gps_power_off" -> "activate_network"
    [] OTHER                -> "closed"

\* C12: when a command of gps_power_on, gps_power_off, activate_network or
\* deactivate_network ends raised (protocol failure or exhaustion), nothing
\* is propagated: the operation goes on or returns and main takes its next
\* step (after gps_power_on the fix acquisition, after gps_power_off the
\* activation; activate_network's failed activation returns false, so main
\* skips the POST and closes the port).
C12_BestEffortNeverPropagates ==
  [][/\ (pc \in BestEffort /\ ex.st = "raised" /\ ex' # ex)
          => /\ uncaught' = "none"
             /\ \/ pc' = NextOfMain /\ ex' = IdleFrame
                \/ pc' = pc /\ op = 1 /\ op' = 2 /\ ex'.st = "write"
     /\ (pc = "activate_network" /\ op = 2 /\ ex.st = "raised" /\ ex' # ex)
          => pc' = "closed"
     /\ (pc \in BestEffort) => uncaught = "none"]_vars

\* activate_network has returned false after its activation command ran out
\* of attempts, and main has closed the port with no exception
C12_Witness ==
  /\ pc = "closed"
  /\ uncaught = "none"
  /\ log = << <<"AT+CNACT?">>, <<"AT+CNACT=0,1">> >>
  /\ hist.trace # <<>>
  /\ Last(hist.trace).o = "Ambiguous"
  /\ Len(hist.trace) = attempts

\* the text of the last read holds a context line with a non-zero address
UpLineRead ==
  LET ls == Lines(hist.text)
  IN  \E i \in 1..Len(ls) :
        /\ Len(ls[i]) = 2
        /\ ls[i][1] = "+CNACT: 0,1,"
        /\ ls[i][2] \in QuotedIPs
        /\ ls[i][2] # "\"0.0.0.0\""

\* the context query of activate_network or deactivate_network has ended and
\* the operation takes its next step
AfterQuery(operation) ==
  pc = operation /\ op = 1 /\ Finished /\ ex' # ex

\* C13: activate_network writes AT+CNACT=0,1 only after its own context
\* query did not report the network up, and returns true (main goes on to
\* the POST) with nothing more written when it did; deactivate_network
\* writes AT+CNACT=0,0 only after its own query reported the network up and
\* returns with nothing more written when it did not.
C13_ActivationFollowsQueriedState ==
  [][/\ ((pc \in {"activate_network", "deactivate_network"} /\ op >= 1)
           => /\ Len(log) <= 2
              /\ Len(log) >= 1 => log[1] = <<"AT+CNACT?">>
              /\ Len(log) = 2
                   => /\ op = 2
                      /\ log[2] = IF pc = "activate_network"
                                  THEN <<"AT+CNACT=0,1">> ELSE <<"AT+CNACT=0,0">>)
     /\ (AfterQuery("activate_network") /\ UpLineRead)
          => /\ pc' = "post_json_payload"
             /\ ex' = IdleFrame
             /\ log' = log
     /\ (AfterQuery("activate_network") /\ ~UpLineRead)
          => /\ pc' = pc
             /\ ex'.st = "write"
             /\ ex'.command = <<"AT+CNACT=0,1">>
     /\ (AfterQuery("deactivate_network") /\ UpLineRead)
          => /\ pc' = pc
             /\ ex'.st = "write"
             /\ ex'.command = <<"AT+CNACT=0,0">>
     /\ (AfterQuery("deactivate_network") /\ ~UpLineRead)
          => /\ pc' = "closed"
             /\ ex' = IdleFrame
             /\ log' = log]_vars

\* deactivate_network has returned having written only its query, which the
\* modem answered with the all-zero address
C13_Witness ==
  /\ pc = "closed"
  /\ uncaught = "none"
  /\ log = << <<"AT+CNACT?">> >>
  /\ ~UpLineRead
  /\ LET ls == Lines(hist.text)
     IN  \E i \in 1..Len(ls) : ls[i] = <<"+CNACT: 0,0,", "\"0.0.0.0\"">>

\* _is_network_up has been called and its query has ended
QueryEnded ==
  pc \in {"activate_network", "deactivate_network"} /\ op = 1 /\ Finished

\* C14: every call of the network-up check writes its own AT+CNACT? query;
\* it returns true exactly when the read that ended the query holds a context
\* line with a non-zero address, and false when the query failed on the
\* all-zero address or ran out of attempts; nothing is propagated.
C14_NetworkUpIsAFreshQuery ==
  [][/\ (pc \in {"activate_network", "deactivate_network"} /\ op = 0
          /\ ex' # ex)
          => /\ ex' = _is_network_up_frame
             /\ ex'.st = "write"
             /\ op' = 1
     /\ QueryEnded
          => /\ hist.writes = 1
             /\ Last(log) = <<"AT+CNACT?">>
             /\ _is_network_up(ex.st) <=> UpLineRead
             /\ Last(hist.trace).o = "Success" <=> _is_network_up(ex.st)
             /\ Last(hist.trace).o \in {"Failure", "Ambiguous"}
                  => ~_is_network_up(ex.st)
             /\ uncaught = "none"
     /\ (QueryEnded /\ ex' # ex) => uncaught' = "none"]_vars

\* the query of deactivate_network ran out of attempts and the check returned
\* false
C14_Witness ==
  /\ pc = "deactivate_network"
  /\ op = 1
  /\ ex.st = "raised"
  /\ ex.result = NoMatchMsg
  /\ Len(hist.trace) = attempts
  /\ ~_is_network_up(ex.st)
  /\ uncaught = "none"

\* how far main has still to go, operation by operation
PcRank ==
  CASE pc = "gps_power_on"       -> 6
    [] pc = "get_gps_position"   -> 5
    [] pc = "gps_power_off"      -> 4
    [] pc = "activate_network"   -> 3
    [] pc = "post_json_payload"  -> 2
    [] pc = "deactivate_network" -> 1
    [] OTHER                     -> 0

\* the most commands one operation writes: those of a whole POST
MostCommands == NCommands + 4

\* the steps an execution has still to take at most: its write, then one
\* step for each read attempt that is left
ExRank ==
  CASE ex.st = "idle"  -> attempts + 2
    [] ex.st = "write" -> attempts + 1
    [] ex.st = "loop"  -> attempts + 1 - ex.attempt
    [] OTHER           -> 0

\* a bound on the steps the program has still to take once the fix
\* acquisition is behind it
Rank ==
  PcRank * (MostCommands + 1) * (attempts + 3)
    + (MostCommands - op) * (attempts + 3)
    + ExRank

\* a step of the program (not of the modem)
ProgramStep == <<pc, op, ex>>' # <<pc, op, ex>>

\* C15: outside get_gps_position every step of the program lowers a bound
\* that is a natural number, whatever the modem sends: an execution makes at
\* most `attempts` reads and writes its command once, gps_power_on and
\* gps_power_off write one command, activate_network and deactivate_network
\* at most two, post_json_payload at most its 17, none twice over; only
\* get_gps_position goes back to a position it has been in, and it does so
\* only to begin another pass of its loop.
C15_BoundedOperationsTerminate ==
  [][/\ Rank \in Nat
     /\ op \in 0..MostCommands
     /\ Len(hist.trace) <= attempts
     /\ hist.writes <= 1
     /\ (pc = "gps_power_on" \/ (pc = "gps_power_off" /\ ex.st # "idle"))
          => Len(log) <= 1
     /\ (pc \in {"activate_network", "deactivate_network"} /\ op >= 1)
          => Len(log) <= 2
     /\ (pc = "post_json_payload" /\ op >= 1)
          => (Len(log) <= op /\ op <= MostCommands)
     /\ (pc # "get_gps_position" /\ ProgramStep) => Rank' < Rank
     /\ (pc = "get_gps_position" /\ ProgramStep /\ Rank' >= Rank)
          => /\ Finished /\ pc' = pc /\ ex' = IdleFrame
             /\ Len(polls') = Len(polls) + 1]_vars

\* deactivate_network has ended although the modem answered nothing from the
\* deactivation command on: its second command ran out of attempts
C15_Witness ==
  /\ pc = "closed"
  /\ Rank = MostCommands * (attempts + 3) + ExRank
  /\ Len(log) = 2
  /\ log[2] = <<"AT+CNACT=0,0">>
  /\ ex.st = "idle"
  /\ Len(hist.trace) = attempts
  /\ \A i \in 1..attempts : Unmatched(hist.trace[i])


\* C18: a read is classified Success or Failure only on bytes the modem sent
\* in answer to the command in execution: bytes of an earlier reply that are
\* in the same read do not change how the read ends.
C18_OnlyOwnReplyIsClassified ==
  (InExecution /\ hist.trace # <<>> /\ Last(hist.trace).o # "Ambiguous")
    => hist.fresh = Last(hist.trace).o

\* the whole reply to the command in execution, as one read of it would be
\* cleaned
WholeReply == _clean_serial_response(RemoveCR(hist.reply), ex.command)

\* C19: an execution that has ended, whose reads held nothing but the reply
\* to its command, that reply holding a line matching the success pattern
\* and having wholly reached the input buffer by the last read, has returned
\* the extract pattern's matches in the whole reply, however the reply was
\* divided among the reads.
C19_SplitReplyIsReturnedWhole ==
  (/\ Finished
   /\ hist.whole
   /\ ~hist.dirty
   /\ re_search(ex.expected_reply_regex, WholeReply))
    => /\ ex.st = "returned"
       /\ ex.result =
            _filter_serial_response_with_regex(ex.regex_return_filter, WholeReply)

\* C20: the first step of post_json_payload, AT+SHDISC, always returns, so
\* that the TLS-version step is written next; and when the TLS-version step
\* is reported failed on a failure line, the modem sent that line in answer
\* to the TLS-version command, not to AT+SHDISC.
C20_CleanupAnswerFailsNoStep ==
  /\ (pc = "post_json_payload" /\ op = 1 /\ Finished) => ex.st = "returned"
  /\ (pc = "post_json_payload" /\ op >= 2)
       => (Len(log) >= 1 /\ log[1] = <<"AT+SHDISC">>)
  /\ (/\ JustReturnedFromPost
      /\ post_report.command = <<"AT+CSSLCFG=\"sslversion\",1,3">>
      /\ Last(hist.trace).o = "Failure")
       => hist.fresh = "Failure"

(***************************************************************************)
(* _clean_serial_response on its own: the function applied, and applied    *)
(* again, to every short text and to commands of the shapes the program    *)
(* passes (one atom, several atoms, and the payload, which ends in LF).    *)
(***************************************************************************)
\* the longest text tried, in atoms
MaxTextLen == 4

CleanAtoms == {"AT", "+X", LF}

CleanTexts == UNION {[1..n -> CleanAtoms] : n \in 0..MaxTextLen}

CleanCommands == {<<"AT">>, <<"AT", "+X">>, <<"AT", LF>>}

\* inbuf is input_data, ex.command is line_to_remove; hist.text will hold the
\* text cleaned once and ex.result the text cleaned twice
InitClean ==
  /\ pc = "_clean_serial_response"
  /\ op = 0
  /\ \E command \in CleanCommands : ex = [IdleFrame EXCEPT !.command = command]
  /\ inbuf \in CleanTexts
  /\ modemOut = <<>>
  /\ log = <<>>
  /\ gps_json = NoFix
  /\ polls = <<>>
  /\ post_report = NoReport
  /\ uncaught = "none"
  /\ hist = NoHistory

CleanOnce ==
  /\ pc = "_clean_serial_response"
  /\ op = 0
  /\ hist' = [hist EXCEPT !.text = _clean_serial_response(inbuf, ex.command)]
  /\ op' = 1
  /\ UNCHANGED <<pc, ex, inbuf, modemOut, log, gps_json, polls, post_report,
                 uncaught>>

CleanAgain ==
  /\ pc = "_clean_serial_response"
  /\ op = 1
  /\ ex' = [ex EXCEPT !.result = _clean_serial_response(hist.text, ex.command)]
  /\ op' = 2
  /\ UNCHANGED <<pc, inbuf, modemOut, log, gps_json, polls, post_report,
                 uncaught, hist>>

NextClean == CleanOnce \/ CleanAgain

SpecClean == InitClean /\ [][NextClean]_vars

\* C16: cleaning a cleaned text changes nothing, for every text and every
\* command; and the first cleaning leaves every line untouched that is not
\* the command itself, in particular one that merely contains it.
C16_EchoRemovalIsIdempotent ==
  /\ (pc = "_clean_serial_response" /\ op = 2) => ex.result = hist.text
  /\ (pc = "_clean_serial_response" /\ op >= 1 /\ ~Contains(ex.command, <<LF>>))
       => /\ Len(Lines(hist.text)) = Len(Lines(inbuf))
          /\ \A i \in 1..Len(Lines(inbuf)) :
               Lines(hist.text)[i] =
                 IF Lines(inbuf)[i] = ex.command THEN <<>> ELSE Lines(inbuf)[i]


(***************************************************************************)
(* _parse_gps_info on its own: the function applied to +CGNSINF lines of   *)
(* 18 values and of a few more or fewer, some of the values empty.         *)
(***************************************************************************)
\* the most values that are empty in a line tried
MaxEmpty == 2
\* the most values a line tried falls short of the schema's 18
MaxCut == 1

\* a report with one value more than the schema has fields
LongFixValues == GoodFixValues \o <<"0">>

\* the first n values, those at the positions of empties emptied
FixValuesWith(n, empties) ==
  [i \in 1..n |-> IF i \in empties THEN "" ELSE LongFixValues[i]]

ParseInputs ==
  {FixLine(FixValuesWith(n, empties)) :
     n \in (Len(GoodFixValues) - MaxCut)..Len(LongFixValues),
     empties \in {E \in SUBSET (1..Len(LongFixValues)) : Cardinality(E) <= MaxEmpty}}

\* inbuf is gps_data; gps_json will hold what _parse_gps_info returns and
\* uncaught the exception it raises
InitParse ==
  /\ pc = "_parse_gps_info"
  /\ op = 0
  /\ ex = IdleFrame
  /\ inbuf \in ParseInputs
  /\ modemOut = <<>>
  /\ log = <<>>
  /\ gps_json = NoFix
  /\ polls = <<>>
  /\ post_report = NoReport
  /\ uncaught = "none"
  /\ hist = NoHistory

Parse ==
  /\ pc = "_parse_gps_info"
  /\ op = 0
  /\ LET parsed == _parse_gps_info(inbuf)
     IN  /\ gps_json' = parsed.json
         /\ uncaught' = IF parsed.error = "" THEN "none" ELSE parsed.error
  /\ op' = 1
  /\ UNCHANGED <<pc, ex, inbuf, modemOut, log, polls, post_report, hist>>

NextParse == Parse

SpecParse == InitParse /\ [][NextParse]_vars

\* the 18 field names of a fix record, in order
SchemaNames ==
  <<"gnss_run_state", "gps_fix_status", "utc_date_time", "latitude",
    "longitude", "msl_altitude", "speed_over_ground", "course_over_ground",
    "fix_mode", "reserved1", "hdop", "pdop", "vdop", "reserved2",
    "gps_satellites_in_view", "reserved3", "hpa", "vpa">>

\* the JSON text of each value of LongFixValues cast to the type of its
\* field: integers as they are, reals as Python writes them, text quoted
CastText ==
  << <<"1">>, <<"1">>, <<"\"", "20240101120000.000", "\"">>, <<"37.7749">>,
     <<"-122.4194">>, <<"15.2">>, <<"0.0">>, <<"0.0">>, <<"1">>,
     <<"\"", "\"">>, <<"1.2">>, <<"0.8">>, <<"0.9">>, <<"\"", "\"">>,
     <<"7">>, <<"\"", "\"">>, <<"25.0">>, <<"30.0">> >>

\* where the field begins in the JSON text, 0 if it is not in it
FieldAt(json, i) == Find(json, <<"\"" \o SchemaNames[i] \o "\"", ": ">>)

====
